---------------------------- MODULE Spec2Model ----------------------------
(***************************************************************************)
(* The interactive demo shell of bot.duyet.net (src/interactive) and its   *)
(* six widgets, as one state machine.                                      *)
(*                                                                         *)
(* The browser runs the page on a single-threaded event loop.  One action  *)
(* of this module is one task of that loop: a user event handler or a      *)
(* timer callback, together with the re-render React commits for the      *)
(* state it set and the effects (cleanup, then setup) that re-render       *)
(* flushes.  The next task sees the committed result.                      *)
(*                                                                         *)
(* A widget that is not mounted has no state; its variables then hold the  *)
(* zero value of their type (FALSE, 0, "", <<>>).  Times are integers (one *)
(* unit is one reading of the clock) and the temperature slider is kept    *)
(* in tenths.  A timer callback may run at any clock reading at or after   *)
(* the one at which it was scheduled; the reply of the chat, whose ids are *)
(* readings of the clock, runs at a later reading than its send.           *)
(*                                                                         *)
(* The static site builder (build.py) is a second, separate program: a     *)
(* single-threaded run over the content directory that writes the output   *)
(* directory.  It shares no state with the page.  Spec is the page in the  *)
(* browser, with no build running; BuildSpec is the builder, with the page *)
(* left as loaded.  One action of the builder is the work between two      *)
(* writes to the file system, so that every content of the output          *)
(* directory a failed write can leave behind is a state.                   *)
(***************************************************************************)
EXTENDS Integers, Sequences, FiniteSets, TLC

VARIABLES
    activeTab,       \* page.tsx: const [activeTab, setActiveTab]
    mounted,         \* the widget components the last render of Home holds
    now,             \* the browser's clock: Date.now() / new Date()
    \* ---- ChatDemo
    messages,        \* const [messages, setMessages]
    input,           \* const [input, setInput]
    isTyping,        \* const [isTyping, setIsTyping]
    chatTimeouts,    \* pending setTimeout callbacks of the mounted ChatDemo
    chatStale,       \* pending setTimeout callbacks of unmounted ChatDemos
    \* ---- StatusDashboard
    lastUpdated,     \* const [lastUpdated, setLastUpdated]
    autoRefresh,     \* const [autoRefresh, setAutoRefresh]
    dashIntervals,   \* live setInterval handles created by StatusDashboard
    dashCleanup,     \* the last effect run of StatusDashboard returned a cleanup
    services,        \* the module-level services array
    \* ---- FeatureComparison
    selectedFeature, \* const [selectedFeature, setSelectedFeature]; 0 is null
    \* ---- ConfigPreview
    config,          \* const [config, setConfig]
    preview,         \* the snapshot the last render put in the preview panel
    \* ---- FeedbackForm
    submitted,       \* const [submitted, setSubmitted]
    feedback,        \* const [feedback, setFeedback]
    reported,        \* the control the browser reported invalid at the last submit
    fbTimeouts,      \* pending setTimeout callbacks of the mounted FeedbackForm
    fbStale,         \* pending setTimeout callbacks of unmounted FeedbackForms
    \* ---- Testimonials
    currentIndex,    \* const [currentIndex, setCurrentIndex]
    isPaused,        \* const [isPaused, setIsPaused]
    carIntervals,    \* live setInterval handles created by Testimonials
    carCleanup,      \* the last effect run of Testimonials returned a cleanup
    carRun,          \* timer firings since mount with no other carousel event
    heldIndex,       \* the slide the user left showing since the mouse entered
    \* ---- the site builder
    contentDir,      \* the content directory: slug -> text of the file
    builtFrom,       \* the content directory as it was when this build started
    listing,         \* the files of the content directory as this build listed them
    todo,            \* the files of the listing still to build
    bpc,             \* where the run of the builder is
    post,            \* build_post's locals between its two writes
    outDir,          \* the files this build has written: path -> text
    siteIndex,       \* the references collected for the aggregate documents
    docs,            \* the aggregate documents this build has written
    errors,          \* the build summary: the files reported as failed
    exitCode,        \* the outcome of the process; NotExited while it runs
    converted,       \* the bodies handed to markdown_to_html: slug -> body
    lastBuild        \* the finished build before this one: its input and aggregates

shellVars == <<activeTab, mounted>>
chatVars == <<messages, input, isTyping, chatTimeouts, chatStale>>
dashVars == <<lastUpdated, autoRefresh, dashIntervals, dashCleanup>>
featVars == <<selectedFeature>>
cfgVars == <<config, preview>>
fbVars == <<submitted, feedback, reported, fbTimeouts, fbStale>>
carVars == <<currentIndex, isPaused, carIntervals, carCleanup, carRun,
            heldIndex>>

buildVars == <<contentDir, builtFrom, listing, todo, bpc, post, outDir, siteIndex, docs, errors,
               exitCode, converted, lastBuild>>

pageVars == <<shellVars, now, chatVars, dashVars, services, featVars, cfgVars,
              fbVars, carVars>>

vars == <<pageVars, buildVars>>

-----------------------------------------------------------------------------
(* Bounds of the model *)

\* the clock starts here (Date.now() is far from the greeting's id 1)
Epoch == 10
\* the clock is read at most this many units after Epoch
MaxTicks == 3
\* the chat log is followed up to this many messages
MaxMessages == 5
\* callbacks of unmounted instances followed at the same time, per widget
MaxStale == 1
\* the content directory holds at most this many files
MaxFiles == 3
\* the length of an uninterrupted run of carousel timer firings that is counted
MaxRun == 5

-----------------------------------------------------------------------------
(* The shell: src/interactive/app/page.tsx *)

Tabs == {"playground", "status", "features", "config", "feedback"}

Widgets == {"ChatDemo", "StatusDashboard", "FeatureComparison",
            "ConfigPreview", "FeedbackForm", "Testimonials"}

\* WidgetsOf with ChatDemo rendered outside the switch, for every tab.
WidgetsOfChatAlways(tab) ==
    {"ChatDemo"} \cup
    (IF tab = "status" THEN {"StatusDashboard"} ELSE {}) \cup
    (IF tab = "features" THEN {"FeatureComparison"} ELSE {}) \cup
    (IF tab = "config" THEN {"ConfigPreview"} ELSE {}) \cup
    (IF tab = "feedback" THEN {"FeedbackForm", "Testimonials"} ELSE {})

\* The content switch of Home: the components rendered for a value of activeTab.
WidgetsOf(tab) ==
    (IF tab = "playground" THEN {"ChatDemo"} ELSE {}) \cup
    (IF tab = "status" THEN {"StatusDashboard"} ELSE {}) \cup
    (IF tab = "features" THEN {"FeatureComparison"} ELSE {}) \cup
    (IF tab = "config" THEN {"ConfigPreview"} ELSE {}) \cup
    (IF tab = "feedback" THEN {"FeedbackForm", "Testimonials"} ELSE {})

\* What a render of Home with activeTab = tab does to widget w.
Entering(w, tab) == w \in WidgetsOf(tab) /\ w \notin mounted
Leaving(w, tab) == w \notin WidgetsOf(tab) /\ w \in mounted

\* The clock advances.
Tick ==
    /\ now < Epoch + MaxTicks
    /\ now' = now + 1
    /\ UNCHANGED <<buildVars, shellVars, chatVars, dashVars, services, featVars, cfgVars,
                   fbVars, carVars>>

-----------------------------------------------------------------------------
(* ChatDemo: src/interactive/components/ChatDemo.tsx *)

demoResponses == <<
    "I'm duyetbot! I help with data engineering, infrastructure, and AI projects. What can I assist you with today?",
    "Great question! I use GLM-4.7 as my main model for most tasks, and I can route to specialized agents like @complex for technical work.",
    "I wake up fresh each session, but I maintain memory through files in my workspace. This website is one way I persist my identity.",
    "I'm built on the OpenClaw platform and can use various tools - browser control, file operations, web search, and more!",
    "That's an interesting challenge! Let me think about it... I could help you build a solution using Python or TypeScript." >>

quickQuestions == <<"What can you do?", "How do you work?",
                    "Tell me about yourself", "Help me with a task">>

\* The quick-question buttons the user clicks in this model: the first and the last.
QuestionInputs == {q \in 1..Len(quickQuestions) : q = Len(quickQuestions)}

\* The values of Math.floor(Math.random() * demoResponses.length) followed in
\* this model: the lowest and the highest.
ResponseDraws == {r \in 1..Len(demoResponses) : r \in {1, Len(demoResponses)}}

\* The texts the user types into the chat input in this model.
TypedInputs == {"", " ", " hi "}

\* String.prototype.trim on the texts the chat input can hold.
Trim(s) == CASE s = " " -> ""
             [] s = " hi " -> "hi"
             [] OTHER -> s

Greeting == "Hello! I'm duyetbot, an AI assistant. Try asking me something!"

\* useState initial value of messages, for a component created at time t.
InitialMessages(t) ==
    << [id |-> 1, type |-> "bot", content |-> Greeting, timestamp |-> t] >>

\* The Send button disabled on blank input only.
SendDisabledBlankOnly == Trim(input) = ""

\* disabled={!input.trim() || isTyping} on the Send button; a form whose
\* submit button is disabled is not submitted (click or Enter).
SendDisabled == Trim(input) = "" \/ isTyping

\* onChange of the input: setInput(e.target.value)
TypeInput(v) ==
    /\ "ChatDemo" \in mounted
    /\ input' = v
    /\ UNCHANGED <<messages, isTyping, chatTimeouts, chatStale>>
    /\ UNCHANGED <<buildVars, shellVars, now, dashVars, services, featVars, cfgVars,
                   fbVars, carVars>>

\* onClick of a quick-question button: setInput(question)
QuickQuestion(q) ==
    /\ "ChatDemo" \in mounted
    /\ input' = quickQuestions[q]
    /\ UNCHANGED <<messages, isTyping, chatTimeouts, chatStale>>
    /\ UNCHANGED <<buildVars, shellVars, now, dashVars, services, featVars, cfgVars,
                   fbVars, carVars>>

\* handleSend without its test of the trimmed input.
handleSendAnyInput ==
    /\ messages' = Append(messages,
           [id |-> now, type |-> "user", content |-> input,
            timestamp |-> now])
    /\ input' = ""
    /\ isTyping' = TRUE
    /\ chatTimeouts' = chatTimeouts + 1
    /\ UNCHANGED chatStale
    /\ UNCHANGED <<buildVars, shellVars, now, dashVars, services, featVars,
                   cfgVars, fbVars, carVars>>

\* handleSend scheduling its reply twice.
handleSendTwoTimers ==
    IF Trim(input) = ""
      THEN UNCHANGED vars
      ELSE /\ messages' = Append(messages,
                  [id |-> now, type |-> "user", content |-> input,
                   timestamp |-> now])
           /\ input' = ""
           /\ isTyping' = TRUE
           /\ chatTimeouts' = chatTimeouts + 2
           /\ UNCHANGED chatStale
           /\ UNCHANGED <<buildVars, shellVars, now, dashVars, services, featVars,
                          cfgVars, fbVars, carVars>>

\* handleSend, called with the form's submit event.
handleSend ==
    IF Trim(input) = ""
      THEN UNCHANGED vars
      ELSE /\ messages' = Append(messages,
                  [id |-> now, type |-> "user", content |-> input,
                   timestamp |-> now])
           /\ input' = ""
           /\ isTyping' = TRUE
           /\ chatTimeouts' = chatTimeouts + 1
           /\ UNCHANGED chatStale
           /\ UNCHANGED <<buildVars, shellVars, now, dashVars, services, featVars,
                          cfgVars, fbVars, carVars>>

\* The user submits the chat form (Send button or Enter).  A send that is
\* accepted is followed while the log has room for it and its reply and the
\* clock can still reach the time of the reply.
ChatSubmit ==
    /\ "ChatDemo" \in mounted
    /\ IF SendDisabled
         THEN UNCHANGED vars
         ELSE /\ Len(messages) + 2 <= MaxMessages
              /\ chatStale < MaxStale
              /\ now < Epoch + MaxTicks
              /\ handleSend

\* ChatReply leaving the typing indicator on.
ChatReplyKeepsTyping ==
    /\ chatTimeouts > 0
    /\ now > messages[Len(messages)].id
    /\ \E r \in ResponseDraws :
          messages' = Append(messages,
              [id |-> now + 1, type |-> "bot", content |-> demoResponses[r],
               timestamp |-> now])
    /\ chatTimeouts' = chatTimeouts - 1
    /\ UNCHANGED <<input, isTyping, chatStale>>
    /\ UNCHANGED <<buildVars, shellVars, now, dashVars, services, featVars, cfgVars,
                   fbVars, carVars>>

\* The setTimeout callback of handleSend, its component still mounted.  Its
\* delay is 1000 ms at the least, so the clock has moved on since handleSend
\* read it for the id of the user's message, the last of the log.
ChatReply ==
    /\ chatTimeouts > 0
    /\ now > messages[Len(messages)].id
    /\ \E r \in ResponseDraws :
          messages' = Append(messages,
              [id |-> now + 1, type |-> "bot", content |-> demoResponses[r],
               timestamp |-> now])
    /\ isTyping' = FALSE
    /\ chatTimeouts' = chatTimeouts - 1
    /\ UNCHANGED <<input, chatStale>>
    /\ UNCHANGED <<buildVars, shellVars, now, dashVars, services, featVars, cfgVars,
                   fbVars, carVars>>

\* The setTimeout callback of handleSend after its component was unmounted:
\* the timeout was never cleared, its state setters reach no mounted component.
ChatStaleReply ==
    /\ chatStale > 0
    /\ chatStale' = chatStale - 1
    /\ UNCHANGED <<messages, input, isTyping, chatTimeouts>>
    /\ UNCHANGED <<buildVars, shellVars, now, dashVars, services, featVars, cfgVars,
                   fbVars, carVars>>

-----------------------------------------------------------------------------
(* StatusDashboard: src/unnamed/part_000, lines 1-174 *)

\* The module-level services array, evaluated when the module is loaded (time t).
Services(t) == <<
    [name |-> "AI Model (GLM-4.7)", status |-> "online", uptime |-> "99.9%", lastCheck |-> t],
    [name |-> "Telegram Bot", status |-> "online", uptime |-> "99.8%", lastCheck |-> t],
    [name |-> "Web Server", status |-> "online", uptime |-> "99.9%", lastCheck |-> t],
    [name |-> "Homelab Dashboard", status |-> "online", uptime |-> "99.7%", lastCheck |-> t],
    [name |-> "GitHub Integration", status |-> "online", uptime |-> "99.9%", lastCheck |-> t],
    [name |-> "Automations", status |-> "degraded", uptime |-> "98.5%", lastCheck |-> t] >>

\* The effect of StatusDashboard for a value of autoRefresh: whether it
\* creates an interval, and so returns a cleanup (if (!autoRefresh) return).
DashboardEffectCreates(refresh) == refresh

\* DashboardIntervalsAfter for an effect that returns no cleanup.
DashboardIntervalsAfterNoCleanup(refresh) ==
    dashIntervals + (IF DashboardEffectCreates(refresh) THEN 1 ELSE 0)

\* The effect runs again for a new value of autoRefresh: the previous
\* cleanup, if any, clears its interval; then the effect body runs.
DashboardIntervalsAfter(refresh) ==
    (dashIntervals - (IF dashCleanup THEN 1 ELSE 0))
        + (IF DashboardEffectCreates(refresh) THEN 1 ELSE 0)

\* DashboardTick that also stamps every service's lastCheck.
DashboardTickStampsServices ==
    /\ dashIntervals > 0
    /\ IF "StatusDashboard" \in mounted
         THEN lastUpdated' = now
         ELSE UNCHANGED lastUpdated
    /\ services' = [i \in 1..Len(services) |->
                        [services[i] EXCEPT !.lastCheck = now]]
    /\ UNCHANGED <<autoRefresh, dashIntervals, dashCleanup>>
    /\ UNCHANGED <<buildVars, shellVars, now, chatVars, featVars, cfgVars, fbVars,
                   carVars>>

\* The setInterval callback: setLastUpdated(new Date())
DashboardTick ==
    /\ dashIntervals > 0
    /\ IF "StatusDashboard" \in mounted
         THEN lastUpdated' = now
         ELSE UNCHANGED lastUpdated
    /\ UNCHANGED <<autoRefresh, dashIntervals, dashCleanup>>
    /\ UNCHANGED <<buildVars, shellVars, now, chatVars, services, featVars, cfgVars,
                   fbVars, carVars>>

\* onClick of the toggle button: setAutoRefresh(!autoRefresh)
ToggleAutoRefresh ==
    /\ "StatusDashboard" \in mounted
    /\ autoRefresh' = ~autoRefresh
    /\ dashIntervals' = DashboardIntervalsAfter(~autoRefresh)
    /\ dashCleanup' = DashboardEffectCreates(~autoRefresh)
    /\ UNCHANGED lastUpdated
    /\ UNCHANGED <<buildVars, shellVars, now, chatVars, services, featVars, cfgVars,
                   fbVars, carVars>>

-----------------------------------------------------------------------------
(* FeatureComparison: src/interactive/components/FeatureComparison.tsx *)

\* features.length
NumFeatures == 8

\* onClick of a table row: setSelectedFeature(feature)
SelectFeature(f) ==
    /\ "FeatureComparison" \in mounted
    /\ selectedFeature' = f
    /\ UNCHANGED <<buildVars, shellVars, now, chatVars, dashVars, services, cfgVars,
                   fbVars, carVars>>

\* onClick of the detail panel's close button, rendered when a feature is
\* selected: setSelectedFeature(null)
CloseFeature ==
    /\ "FeatureComparison" \in mounted
    /\ selectedFeature # 0
    /\ selectedFeature' = 0
    /\ UNCHANGED <<buildVars, shellVars, now, chatVars, dashVars, services, cfgVars,
                   fbVars, carVars>>

-----------------------------------------------------------------------------
(* ConfigPreview: src/interactive/components/ConfigPreview.tsx *)

models == <<"zai/glm-4.7", "zai/glm-4.7-flash", "zai/glm-4.7-reasoning">>

\* The temperature range input, in tenths: min="0" max="2" step="0.1".
TemperatureMin == 0
TemperatureMax == 20
\* The max-tokens range input: min="512" max="8192" step="512".
MaxTokensMin == 512
MaxTokensMax == 8192
MaxTokensStep == 512

\* The values the sliders can deliver.
TemperatureValues == TemperatureMin..TemperatureMax
MaxTokensValues ==
    {n \in MaxTokensMin..MaxTokensMax : (n - MaxTokensMin) % MaxTokensStep = 0}

\* The slider positions the user chooses in this model: both ends, the
\* default and one more.
TemperatureInputs == {v \in TemperatureValues : v \in {TemperatureMin, 7, 12, TemperatureMax}}
MaxTokensInputs == {n \in MaxTokensValues : n \in {MaxTokensMin, 1024, 4096, MaxTokensMax}}

\* useState initial value of config, and the object the reset button sets.
DefaultConfig ==
    [model |-> "zai/glm-4.7", temperature |-> 7, maxTokens |-> 4096,
     streaming |-> TRUE, thinking |-> FALSE, agentRouting |-> TRUE]

\* generateConfigPreview, called by a render whose config is c.
generateConfigPreview(c) ==
    [agent |-> "main",
     model |-> c.model,
     parameters |-> [temperature |-> c.temperature, max_tokens |-> c.maxTokens],
     capabilities |-> [streaming |-> c.streaming, thinking |-> c.thinking,
                       agent_routing |-> c.agentRouting],
     runtime |-> [host |-> "openclaw", node |-> "v22.22.0", shell |-> "bash"]]

\* SetConfig with the preview panel showing a snapshot computed once and kept.
SetConfigStalePreview(c) ==
    /\ "ConfigPreview" \in mounted
    /\ config' = c
    /\ UNCHANGED preview
    /\ UNCHANGED <<buildVars, shellVars, now, chatVars, dashVars, services, featVars,
                   fbVars, carVars>>

\* setConfig(c) and the re-render it causes.
SetConfig(c) ==
    /\ "ConfigPreview" \in mounted
    /\ config' = c
    /\ preview' = generateConfigPreview(c)
    /\ UNCHANGED <<buildVars, shellVars, now, chatVars, dashVars, services, featVars,
                   fbVars, carVars>>

\* onChange of the model select: setConfig({ ...config, model: e.target.value })
SelectModel(m) == SetConfig([config EXCEPT !.model = models[m]])

\* onChange of the temperature slider:
\* setConfig({ ...config, temperature: parseFloat(e.target.value) })
SetTemperature(v) == SetConfig([config EXCEPT !.temperature = v])

\* onChange of the max-tokens slider:
\* setConfig({ ...config, maxTokens: parseInt(e.target.value) })
SetMaxTokens(v) == SetConfig([config EXCEPT !.maxTokens = v])

\* toggleSetting(key): setConfig((prev) => ({ ...prev, [key]: !prev[key] }))
toggleSetting(key) == SetConfig([config EXCEPT ![key] = ~config[key]])

\* ResetConfig leaving the model selected.
ResetConfigKeepsModel ==
    SetConfig([DefaultConfig EXCEPT !.model = config.model])

\* onClick of the reset button
ResetConfig == SetConfig(DefaultConfig)

\* The three switches of the panel, and all six settings.
Toggles == {"streaming", "thinking", "agentRouting"}
Settings == {"model", "temperature", "maxTokens"} \cup Toggles

\* A change of one setting: the setting and, for the select and the sliders,
\* the value chosen (the index of the model; 0 for a switch).  These are the
\* changes dispatched two to a task in this model: one of the select, one
\* of a slider and one of a switch.
BatchEvents == {<<"model", 2>>, <<"temperature", 12>>, <<"thinking", 0>>}

\* The configuration that has the change e made to c.
Changed(c, e) ==
    CASE e[1] = "model" -> [c EXCEPT !.model = models[e[2]]]
      [] e[1] = "temperature" -> [c EXCEPT !.temperature = e[2]]
      [] e[1] = "maxTokens" -> [c EXCEPT !.maxTokens = e[2]]
      [] OTHER -> [c EXCEPT ![e[1]] = ~c[e[1]]]

\* What the handler of e, a closure of the render whose config is c, passes
\* to setConfig: toggleSetting passes an updater function, the select and
\* the sliders pass the object { ...config, field: value } built from c.
QueuedUpdate(c, e) ==
    IF e[1] \in Toggles
      THEN [updater |-> TRUE, event |-> e, value |-> c]
      ELSE [updater |-> FALSE, event |-> e, value |-> Changed(c, e)]

\* React processing one queued update on the state prev.
ApplyUpdate(prev, u) ==
    IF u.updater THEN Changed(prev, u.event) ELSE u.value

\* Two changes of different settings dispatched in one task: both handlers
\* are closures of the same render, their updates are queued and processed
\* in order by the one re-render that follows.
ConfigBatch(e1, e2) ==
    /\ e1[1] # e2[1]
    /\ SetConfig(ApplyUpdate(ApplyUpdate(config, QueuedUpdate(config, e1)),
                             QueuedUpdate(config, e2)))

-----------------------------------------------------------------------------
(* FeedbackForm: src/unnamed/part_001 *)

categories == <<"general", "feature", "bug", "suggestion", "other">>

\* The texts the user types into the form in this model; an e-mail address
\* is a sequence of characters.
NameInputs == {"", "Ann"}
MessageInputs == {"", "Nice bot"}
EmailInputs == {<< >>, <<"a">>, <<"a", "@", "b">>}
\* The stars the user clicks and the categories the user selects in this
\* model: the first and the last of each (of stars 1..5, of categories).
RatingInputs == {star \in 1..5 : star \in {1, 5}}
CategoryInputs == {c \in 1..Len(categories) : c \in {1, Len(categories)}}

\* useState initial value of feedback.
DefaultFeedback ==
    [name |-> "", email |-> << >>, rating |-> 5, category |-> "general",
     message |-> ""]

\* ValidEmail of a stricter validator that wants a dot in the domain.
ValidEmailNeedsDot(e) ==
    \E i \in 2..(Len(e) - 1) :
        /\ e[i] = "@"
        /\ \A j \in 1..Len(e) : e[j] = "@" => j = i
        /\ \E j \in (i + 1)..Len(e) : e[j] = "."

\* <input type="email">: a value is a valid e-mail address when it has a
\* non-empty local part, one "@" and a non-empty domain.
ValidEmail(e) ==
    \E i \in 2..(Len(e) - 1) :
        /\ e[i] = "@"
        /\ \A j \in 1..Len(e) : e[j] = "@" => j = i

\* FirstInvalid with no `required` on the message textarea.
FirstInvalidMessageOptional(f) ==
    IF f.name = "" THEN "name"
    ELSE IF f.email = << >> \/ ~ValidEmail(f.email) THEN "email"
    ELSE ""

\* The browser's constraint validation of the form's controls, in tree
\* order: `required` on name, email and message, type="email" on email.
\* The first control that fails, "" when all pass.
FirstInvalid(f) ==
    IF f.name = "" THEN "name"
    ELSE IF f.email = << >> \/ ~ValidEmail(f.email) THEN "email"
    ELSE IF f.message = "" THEN "message"
    ELSE ""

\* setFeedback(f) from a control of the displayed form.
SetFeedback(f) ==
    /\ "FeedbackForm" \in mounted
    /\ ~submitted
    /\ feedback' = f
    /\ reported' = ""
    /\ UNCHANGED <<submitted, fbTimeouts, fbStale>>
    /\ UNCHANGED <<buildVars, shellVars, now, chatVars, dashVars, services, featVars,
                   cfgVars, carVars>>

SetName(v) == SetFeedback([feedback EXCEPT !.name = v])
SetEmail(v) == SetFeedback([feedback EXCEPT !.email = v])
SetCategory(c) == SetFeedback([feedback EXCEPT !.category = categories[c]])
SetRating(star) == SetFeedback([feedback EXCEPT !.rating = star])
SetMessage(v) == SetFeedback([feedback EXCEPT !.message = v])

\* handleSubmit that also sends the carousel back to its first slide.
handleSubmitRewindsCarousel ==
    /\ submitted' = TRUE
    /\ fbTimeouts' = fbTimeouts + 1
    /\ reported' = ""
    /\ currentIndex' = 0
    /\ UNCHANGED <<feedback, fbStale>>
    /\ UNCHANGED <<isPaused, carIntervals, carCleanup, carRun, heldIndex>>
    /\ UNCHANGED <<buildVars, shellVars, now, chatVars, dashVars, services, featVars,
                   cfgVars>>

\* handleSubmit, called with the form's submit event.
handleSubmit ==
    /\ submitted' = TRUE
    /\ fbTimeouts' = fbTimeouts + 1
    /\ reported' = ""
    /\ UNCHANGED <<feedback, fbStale>>
    /\ UNCHANGED <<buildVars, shellVars, now, chatVars, dashVars, services, featVars,
                   cfgVars, carVars>>

\* The user presses "Submit Feedback": the browser validates the controls
\* and either reports the first invalid one or fires the submit event.
FeedbackSubmit ==
    /\ "FeedbackForm" \in mounted
    /\ ~submitted
    /\ fbStale < MaxStale
    /\ IF FirstInvalid(feedback) # ""
         THEN /\ reported' = FirstInvalid(feedback)
              /\ UNCHANGED <<submitted, feedback, fbTimeouts, fbStale>>
              /\ UNCHANGED <<buildVars, shellVars, now, chatVars, dashVars, services,
                             featVars, cfgVars, carVars>>
         ELSE handleSubmit

\* FeedbackTimeout bringing back an empty form.
FeedbackTimeoutClearsForm ==
    /\ fbTimeouts > 0
    /\ submitted' = FALSE
    /\ fbTimeouts' = fbTimeouts - 1
    /\ feedback' = DefaultFeedback
    /\ UNCHANGED <<reported, fbStale>>
    /\ UNCHANGED <<buildVars, shellVars, now, chatVars, dashVars, services, featVars,
                   cfgVars, carVars>>

\* The setTimeout callback of handleSubmit, its component still mounted:
\* setSubmitted(false)
FeedbackTimeout ==
    /\ fbTimeouts > 0
    /\ submitted' = FALSE
    /\ fbTimeouts' = fbTimeouts - 1
    /\ UNCHANGED <<feedback, reported, fbStale>>
    /\ UNCHANGED <<buildVars, shellVars, now, chatVars, dashVars, services, featVars,
                   cfgVars, carVars>>

\* The setTimeout callback of handleSubmit after its component was unmounted.
FeedbackStaleTimeout ==
    /\ fbStale > 0
    /\ fbStale' = fbStale - 1
    /\ UNCHANGED <<submitted, feedback, reported, fbTimeouts>>
    /\ UNCHANGED <<buildVars, shellVars, now, chatVars, dashVars, services, featVars,
                   cfgVars, carVars>>

-----------------------------------------------------------------------------
(* Testimonials: src/unnamed/part_000, lines 176-373 *)

\* testimonials.length
NumTestimonials == 4

\* a value of carRun: the run of untouched firings was interrupted or too long
NoRun == 0 - 1

\* a value of heldIndex: the mouse is not over the carousel
NotHeld == 0 - 1

\* CarouselEffectCreates without the early return on isPaused.
CarouselEffectIgnoresPause(paused) == TRUE

\* The effect of Testimonials for a value of isPaused: whether it creates an
\* interval, and so returns a cleanup (if (isPaused) return).
CarouselEffectCreates(paused) == ~paused

\* The effect runs again for a new value of isPaused: the previous cleanup,
\* if any, clears its interval; then the effect body runs.
CarouselIntervalsAfter(paused) ==
    (carIntervals - (IF carCleanup THEN 1 ELSE 0))
        + (IF CarouselEffectCreates(paused) THEN 1 ELSE 0)

\* NextIndex without the wrap-around.
NextIndexNoWrap(prev) == prev + 1

\* (prev) => (prev + 1) % testimonials.length
NextIndex(prev) == (prev + 1) % NumTestimonials

\* PrevIndex without the wrap-around.
PrevIndexNoWrap(prev) == prev - 1

\* PrevIndex stopping at the first slide.
PrevIndexStopsAtFirst(prev) == IF prev = 0 THEN 0 ELSE prev - 1

\* (prev) => (prev - 1 + testimonials.length) % testimonials.length
PrevIndex(prev) == (prev - 1 + NumTestimonials) % NumTestimonials

\* The setInterval callback: setCurrentIndex(next)
CarouselTick ==
    /\ carIntervals > 0
    /\ IF "Testimonials" \in mounted
         THEN /\ currentIndex' = NextIndex(currentIndex)
              /\ carRun' = IF carRun # NoRun /\ carRun < MaxRun
                             THEN carRun + 1 ELSE NoRun
         ELSE UNCHANGED <<currentIndex, carRun>>
    /\ UNCHANGED <<isPaused, carIntervals, carCleanup, heldIndex>>
    /\ UNCHANGED <<buildVars, shellVars, now, chatVars, dashVars, services, featVars,
                   cfgVars, fbVars>>

\* setCurrentIndex from one of the manual controls.
Navigate(index) ==
    /\ "Testimonials" \in mounted
    /\ currentIndex' = index
    /\ carRun' = NoRun
    /\ heldIndex' = IF isPaused THEN index ELSE NotHeld
    /\ UNCHANGED <<isPaused, carIntervals, carCleanup>>
    /\ UNCHANGED <<buildVars, shellVars, now, chatVars, dashVars, services, featVars,
                   cfgVars, fbVars>>

goToSlide(index) == Navigate(index)
goToPrevious == Navigate(PrevIndex(currentIndex))
goToNext == Navigate(NextIndex(currentIndex))

\* setIsPaused(paused); an unchanged value causes no re-render and the
\* effect does not run again.
SetIsPaused(paused) ==
    /\ "Testimonials" \in mounted
    /\ isPaused' = paused
    /\ IF paused = isPaused
         THEN UNCHANGED <<carIntervals, carCleanup>>
         ELSE /\ carIntervals' = CarouselIntervalsAfter(paused)
              /\ carCleanup' = CarouselEffectCreates(paused)
    /\ carRun' = NoRun
    /\ heldIndex' = IF paused THEN currentIndex ELSE NotHeld
    /\ UNCHANGED currentIndex
    /\ UNCHANGED <<buildVars, shellVars, now, chatVars, dashVars, services, featVars,
                   cfgVars, fbVars>>

onMouseEnter == SetIsPaused(TRUE)
onMouseLeave == SetIsPaused(FALSE)

-----------------------------------------------------------------------------
(* Mounting and unmounting: the content switch of page.tsx, lines 75-84 *)

\* The values held for a widget that is not mounted.
NoConfig ==
    [model |-> "", temperature |-> 0, maxTokens |-> 0,
     streaming |-> FALSE, thinking |-> FALSE, agentRouting |-> FALSE]
NoPreview == [agent |-> ""]
NoFeedback ==
    [name |-> "", email |-> << >>, rating |-> 0, category |-> "", message |-> ""]

\* ChatAcross for a ChatDemo that is hidden, not unmounted: its state stays.
ChatAcrossKeepsState(tab) == UNCHANGED chatVars

\* ChatDemo across a render of Home with activeTab = tab.  Mounting runs the
\* useState initialisers; unmounting drops the state and leaves the pending
\* timeout, which no cleanup clears, to run later.
ChatAcross(tab) ==
    IF Entering("ChatDemo", tab)
      THEN /\ messages' = InitialMessages(now)
           /\ input' = ""
           /\ isTyping' = FALSE
           /\ chatTimeouts' = 0
           /\ UNCHANGED chatStale
    ELSE IF Leaving("ChatDemo", tab)
      THEN /\ messages' = << >>
           /\ input' = ""
           /\ isTyping' = FALSE
           /\ chatTimeouts' = 0
           /\ chatStale' = chatStale + chatTimeouts
    ELSE UNCHANGED chatVars

\* StatusDashboard: mounting runs the initialisers and then the effect;
\* unmounting runs the cleanup the last effect run returned.
DashboardAcross(tab) ==
    IF Entering("StatusDashboard", tab)
      THEN /\ lastUpdated' = now
           /\ autoRefresh' = TRUE
           /\ dashIntervals' =
                 dashIntervals + (IF DashboardEffectCreates(TRUE) THEN 1 ELSE 0)
           /\ dashCleanup' = DashboardEffectCreates(TRUE)
    ELSE IF Leaving("StatusDashboard", tab)
      THEN /\ lastUpdated' = 0
           /\ autoRefresh' = FALSE
           /\ dashIntervals' = dashIntervals - (IF dashCleanup THEN 1 ELSE 0)
           /\ dashCleanup' = FALSE
    ELSE UNCHANGED dashVars

FeaturesAcross(tab) ==
    IF Entering("FeatureComparison", tab) \/ Leaving("FeatureComparison", tab)
      THEN selectedFeature' = 0
      ELSE UNCHANGED featVars

ConfigAcross(tab) ==
    IF Entering("ConfigPreview", tab)
      THEN /\ config' = DefaultConfig
           /\ preview' = generateConfigPreview(DefaultConfig)
    ELSE IF Leaving("ConfigPreview", tab)
      THEN /\ config' = NoConfig
           /\ preview' = NoPreview
    ELSE UNCHANGED cfgVars

\* FeedbackForm: like ChatDemo, its pending timeout is not cleared.
FeedbackAcross(tab) ==
    IF Entering("FeedbackForm", tab)
      THEN /\ submitted' = FALSE
           /\ feedback' = DefaultFeedback
           /\ reported' = ""
           /\ fbTimeouts' = 0
           /\ UNCHANGED fbStale
    ELSE IF Leaving("FeedbackForm", tab)
      THEN /\ submitted' = FALSE
           /\ feedback' = NoFeedback
           /\ reported' = ""
           /\ fbTimeouts' = 0
           /\ fbStale' = fbStale + fbTimeouts
    ELSE UNCHANGED fbVars

\* Testimonials: like StatusDashboard.
CarouselAcross(tab) ==
    IF Entering("Testimonials", tab)
      THEN /\ currentIndex' = 0
           /\ isPaused' = FALSE
           /\ carIntervals' =
                 carIntervals + (IF CarouselEffectCreates(FALSE) THEN 1 ELSE 0)
           /\ carCleanup' = CarouselEffectCreates(FALSE)
           /\ carRun' = 0
           /\ heldIndex' = NotHeld
    ELSE IF Leaving("Testimonials", tab)
      THEN /\ currentIndex' = 0
           /\ isPaused' = FALSE
           /\ carIntervals' = carIntervals - (IF carCleanup THEN 1 ELSE 0)
           /\ carCleanup' = FALSE
           /\ carRun' = NoRun
           /\ heldIndex' = NotHeld
    ELSE UNCHANGED carVars

\* The render of Home for a new value of activeTab.
SwitchTo(tab) ==
    /\ activeTab' = tab
    /\ mounted' = WidgetsOf(tab)
    /\ ChatAcross(tab)
    /\ DashboardAcross(tab)
    /\ FeaturesAcross(tab)
    /\ ConfigAcross(tab)
    /\ FeedbackAcross(tab)
    /\ CarouselAcross(tab)
    /\ UNCHANGED <<buildVars, now, services>>

\* SetActiveTab refusing the click while the chat awaits its reply.
SetActiveTabWhenIdle(tab) ==
    /\ ~isTyping
    /\ IF tab = activeTab THEN UNCHANGED vars ELSE SwitchTo(tab)

\* onClick of a tab button: setActiveTab(tab.id).  Setting the value the
\* state already has causes no render.
SetActiveTab(tab) ==
    IF tab = activeTab THEN UNCHANGED vars ELSE SwitchTo(tab)

-----------------------------------------------------------------------------
(* The site builder: texts, and the functions build_post calls               *)
(* (src/unnamed/part_004, lines 38-50; the rest of build.py as the           *)
(* specification of the builder describes it)                                *)

\* The slugs of the content files, derived from the file names; slug i is the
\* i-th of them in ascending order ("a" before "b").
Slugs == 1..MaxFiles

\* A text is a sequence of lines; a line is a record of its kind k and its
\* value v.  The fence "---" opens and closes the frontmatter block, and is
\* a horizontal rule when it stands in the body.
Fence == [k |-> "---", v |-> ""]

\* The dates the content files carry in this model ("" is a file with no
\* date line).
DateInputs == {"", "2026-02-14", "2026-02-16"}

\* The body of the file with slug s: a paragraph, a rule and a paragraph.
BodyOf(s) ==
    << [k |-> "text", v |-> "Post " \o ToString(s)], Fence,
       [k |-> "text", v |-> "The end."] >>

\* A content file: a frontmatter block with title, date (when it has one)
\* and description, and the body after it.
FileText(s, date) ==
    << Fence, [k |-> "title", v |-> "Title " \o ToString(s)] >>
    \o (IF date = "" THEN << >> ELSE << [k |-> "date", v |-> date] >>)
    \o << [k |-> "description", v |-> "About " \o ToString(s)], Fence >>
    \o BodyOf(s)

\* The content directories of this model: any files among Slugs, each with
\* any of the dates.
ContentDirs ==
    UNION {{[s \in D |-> FileText(s, date[s])] : date \in [D -> DateInputs]} :
              D \in SUBSET Slugs}

\* The calendar date a date string parses to, as YYYYMMDD; 0 when the
\* string is no date.
ParseDate(d) ==
    CASE d = "2026-02-14" -> 20260214
      [] d = "2026-02-16" -> 20260216
      [] OTHER -> 0

\* The value of the first line of kind key among lines, "" when none is.
FieldOf(lines, key) ==
    IF \E i \in 1..Len(lines) : lines[i].k = key
      THEN lines[CHOOSE i \in 1..Len(lines) :
                    /\ lines[i].k = key
                    /\ \A j \in 1..(i - 1) : lines[j].k # key].v
      ELSE ""

\* The line that closes the frontmatter block of content: the first fence
\* after the opening one; 0 when the block is not there.
ClosingFence(content) ==
    IF Len(content) >= 2 /\ content[1].k = "---"
         /\ \E i \in 2..Len(content) : content[i].k = "---"
      THEN CHOOSE i \in 2..Len(content) :
              /\ content[i].k = "---"
              /\ \A j \in 2..(i - 1) : content[j].k # "---"
      ELSE 0

\* parse_frontmatter(content): the metadata of the block and the text after
\* it.  A file with no block has no metadata and is all body.
parse_frontmatter(content) ==
    LET close == ClosingFence(content)
        block == IF close = 0 THEN << >> ELSE SubSeq(content, 2, close - 1)
    IN  [meta |-> [title |-> FieldOf(block, "title"),
                   date |-> FieldOf(block, "date"),
                   description |-> FieldOf(block, "description")],
         body |-> SubSeq(content, close + 1, Len(content))]

\* The required field of meta that is missing or invalid, "" when none is:
\* a content item needs a title and a date that is a calendar date.
MissingField(meta) ==
    IF meta.title = "" THEN "title"
    ELSE IF meta.date = "" \/ ParseDate(meta.date) = 0 THEN "date"
    ELSE ""

\* markdown_to_html(body): a paragraph for a line of text, a rule for "---".
markdown_to_html(body) ==
    [i \in 1..Len(body) |->
        IF body[i].k = "---" THEN [k |-> "hr", v |-> ""]
                             ELSE [k |-> "p", v |-> body[i].v]]

\* render_template(base, nav, content, footer): content between the
\* navigation and the footer, in the base page.
render_template(content) ==
    << [k |-> "nav", v |-> ""] >> \o content \o << [k |-> "footer", v |-> ""] >>

\* add_metadata that parses the body once more: the header, then the body
\* cut at its first rule.
add_metadata_cut_at_rule(body, meta) ==
    << Fence, [k |-> "title", v |-> meta.title], [k |-> "date", v |-> meta.date],
       [k |-> "description", v |-> meta.description], Fence >>
    \o SubSeq(body, 1, ClosingFence(<<Fence>> \o body) - 2)

\* add_metadata(body, meta): the normalized header of title, date and
\* description, then the body.
add_metadata(body, meta) ==
    << Fence, [k |-> "title", v |-> meta.title], [k |-> "date", v |-> meta.date],
       [k |-> "description", v |-> meta.description], Fence >>
    \o body

\* The output paths of the item with slug s: /blog/{s}.html and /blog/{s}.md.
html_path(s) == <<s, "html">>
md_path(s) == <<s, "md">>

-----------------------------------------------------------------------------
(* The site builder: a run                                                   *)

\* values of post, docs, exitCode and lastBuild when there is nothing to hold
NoPost == [slug |-> 0]
NoDocs == [written |-> {}, discovery |-> << >>, feed |-> << >>,
           sitemap |-> << >>]
NotExited == 0 - 1
NoBuild == [built |-> FALSE]

\* The orders in which the files of directory dir can be listed.
Listings(dir) ==
    {o \in [1..Cardinality(DOMAIN dir) -> DOMAIN dir] :
        \A i, j \in DOMAIN o : o[i] = o[j] => i = j}

\* The reference to an item kept in the site index.
Reference(s, meta) ==
    [slug |-> s, title |-> meta.title, description |-> meta.description,
     date |-> meta.date, path |-> html_path(s)]

\* a goes before b in the site index: the later date first, and of two items
\* of one date the one with the smaller slug.
Before(a, b) ==
    \/ ParseDate(a.date) > ParseDate(b.date)
    \/ ParseDate(a.date) = ParseDate(b.date) /\ a.slug < b.slug

\* The stable sort of the site index: each reference in turn is put behind
\* the last one that does not come after it.
RECURSIVE SortIndex(_)
SortIndex(refs) ==
    IF refs = << >> THEN << >>
    ELSE LET sorted == SortIndex(SubSeq(refs, 1, Len(refs) - 1))
             x == refs[Len(refs)]
             n == Cardinality({i \in 1..Len(sorted) : ~Before(x, sorted[i])})
         IN  SubSeq(sorted, 1, n) \o <<x>> \o SubSeq(sorted, n + 1, Len(sorted))

\* StartBuild that keeps the site index of the build before and adds to it.
StartBuildKeepsIndex ==
    /\ bpc \in {"idle", "done", "aborted"}
    /\ \E o \in Listings(contentDir) : listing' = o /\ todo' = o
    /\ bpc' = IF DOMAIN contentDir = {} THEN "discovery" ELSE "post"
    /\ post' = NoPost
    /\ outDir' = << >>
    /\ docs' = NoDocs
    /\ errors' = << >>
    /\ exitCode' = NotExited
    /\ converted' = << >>
    /\ builtFrom' = contentDir
    /\ lastBuild' = IF bpc = "done"
                      THEN [built |-> TRUE, content |-> builtFrom, docs |-> docs]
                      ELSE lastBuild
    /\ UNCHANGED <<contentDir, siteIndex>>
    /\ UNCHANGED pageVars

\* The builder is started: it lists the content directory and begins with
\* an empty site index and nothing written.
StartBuild ==
    /\ bpc \in {"idle", "done", "aborted"}
    /\ \E o \in Listings(contentDir) : listing' = o /\ todo' = o
    /\ bpc' = IF DOMAIN contentDir = {} THEN "discovery" ELSE "post"
    /\ post' = NoPost
    /\ outDir' = << >>
    /\ siteIndex' = << >>
    /\ docs' = NoDocs
    /\ errors' = << >>
    /\ exitCode' = NotExited
    /\ converted' = << >>
    /\ builtFrom' = contentDir
    /\ lastBuild' = IF bpc = "done"
                      THEN [built |-> TRUE, content |-> builtFrom, docs |-> docs]
                      ELSE lastBuild
    /\ UNCHANGED <<contentDir>>
    /\ UNCHANGED pageVars

\* The loop goes on to the next file, or to the aggregates after the last.
AfterPost == IF Len(todo) = 1 THEN "discovery" ELSE "post"

\* build_post(filepath) up to its first write: the file is read and parsed,
\* its body converted, the page rendered, and the HTML written.  The call
\* of render_template is given content, the text as read.
BuildPostHtml ==
    /\ bpc = "post"
    /\ LET filepath == Head(todo)
           content == contentDir[filepath]
           parsed == parse_frontmatter(content)
           body_html == markdown_to_html(parsed.body)
           html == render_template(content)
       IN  /\ MissingField(parsed.meta) = ""
           /\ converted' = (filepath :> parsed.body) @@ converted
           /\ outDir' = (html_path(filepath) :> html) @@ outDir
           /\ post' = [slug |-> filepath, meta |-> parsed.meta,
                       body |-> parsed.body, body_html |-> body_html]
    /\ bpc' = "md"
    /\ UNCHANGED <<contentDir, builtFrom, listing, todo, siteIndex, docs, errors,
                   exitCode, lastBuild>>
    /\ UNCHANGED pageVars

\* BuildPostMd returning without the markdown written.
BuildPostMdNotWritten ==
    /\ bpc = "md"
    /\ siteIndex' = Append(siteIndex, Reference(post.slug, post.meta))
    /\ todo' = Tail(todo)
    /\ bpc' = AfterPost
    /\ post' = NoPost
    /\ UNCHANGED <<contentDir, builtFrom, listing, outDir, docs, errors,
                   exitCode, converted, lastBuild>>
    /\ UNCHANGED pageVars

\* BuildPostMd writing the markdown of a body parsed a second time.
BuildPostMdReparsed ==
    /\ bpc = "md"
    /\ outDir' = (md_path(post.slug) :>
                     add_metadata_cut_at_rule(post.body, post.meta)) @@ outDir
    /\ siteIndex' = Append(siteIndex, Reference(post.slug, post.meta))
    /\ todo' = Tail(todo)
    /\ bpc' = AfterPost
    /\ post' = NoPost
    /\ UNCHANGED <<contentDir, builtFrom, listing, docs, errors, exitCode,
                   converted, lastBuild>>
    /\ UNCHANGED pageVars

\* build_post's second write, the markdown, and its return to the loop,
\* which adds the item to the site index.
BuildPostMd ==
    /\ bpc = "md"
    /\ outDir' = (md_path(post.slug) :> add_metadata(post.body, post.meta))
                     @@ outDir
    /\ siteIndex' = Append(siteIndex, Reference(post.slug, post.meta))
    /\ todo' = Tail(todo)
    /\ bpc' = AfterPost
    /\ post' = NoPost
    /\ UNCHANGED <<contentDir, builtFrom, listing, docs, errors, exitCode,
                   converted, lastBuild>>
    /\ UNCHANGED pageVars

\* BuildPostMalformed that reports the item and lists it all the same.
BuildPostMalformedListed ==
    /\ bpc = "post"
    /\ LET filepath == Head(todo)
           parsed == parse_frontmatter(contentDir[filepath])
       IN  /\ MissingField(parsed.meta) # ""
           /\ errors' = Append(errors, [path |-> filepath,
                                        field |-> MissingField(parsed.meta)])
           /\ siteIndex' = Append(siteIndex, Reference(filepath, parsed.meta))
    /\ todo' = Tail(todo)
    /\ bpc' = AfterPost
    /\ UNCHANGED <<contentDir, builtFrom, listing, post, outDir, docs, exitCode,
                   converted, lastBuild>>
    /\ UNCHANGED pageVars

\* The file is malformed: the item is reported with its path and the field,
\* nothing is written for it, and the loop goes on.
BuildPostMalformed ==
    /\ bpc = "post"
    /\ LET filepath == Head(todo)
           parsed == parse_frontmatter(contentDir[filepath])
       IN  /\ MissingField(parsed.meta) # ""
           /\ errors' = Append(errors, [path |-> filepath,
                                        field |-> MissingField(parsed.meta)])
    /\ todo' = Tail(todo)
    /\ bpc' = AfterPost
    /\ UNCHANGED <<contentDir, builtFrom, listing, post, outDir, siteIndex, docs,
                   exitCode, converted, lastBuild>>
    /\ UNCHANGED pageVars

\* WriteDiscovery leaving the site index in the order the items were built.
WriteDiscoveryUnsorted ==
    /\ bpc = "discovery"
    /\ docs' = [docs EXCEPT !.written = @ \cup {"discovery"},
                            !.discovery = siteIndex]
    /\ bpc' = "feed"
    /\ UNCHANGED <<contentDir, builtFrom, listing, todo, post, outDir, siteIndex,
                   errors, exitCode, converted, lastBuild>>
    /\ UNCHANGED pageVars

\* After the last item the site index is sorted and the discovery index is
\* written from it: title, description and path of every item.
WriteDiscovery ==
    /\ bpc = "discovery"
    /\ siteIndex' = SortIndex(siteIndex)
    /\ docs' = [docs EXCEPT !.written = @ \cup {"discovery"},
                            !.discovery = siteIndex']
    /\ bpc' = "feed"
    /\ UNCHANGED <<contentDir, builtFrom, listing, todo, post, outDir, errors,
                   exitCode, converted, lastBuild>>
    /\ UNCHANGED pageVars

\* WriteFeed listing the posts of the latest date only.
WriteFeedLatestOnly ==
    /\ bpc = "feed"
    /\ docs' = [docs EXCEPT !.written = @ \cup {"feed"},
                            !.feed = SelectSeq(siteIndex,
                                LAMBDA r : r.date = siteIndex[1].date)]
    /\ bpc' = "sitemap"
    /\ UNCHANGED <<contentDir, builtFrom, listing, todo, post, outDir, siteIndex,
                   errors, exitCode, converted, lastBuild>>
    /\ UNCHANGED pageVars

\* The feed is written from the site index.
WriteFeed ==
    /\ bpc = "feed"
    /\ docs' = [docs EXCEPT !.written = @ \cup {"feed"}, !.feed = siteIndex]
    /\ bpc' = "sitemap"
    /\ UNCHANGED <<contentDir, builtFrom, listing, todo, post, outDir, siteIndex,
                   errors, exitCode, converted, lastBuild>>
    /\ UNCHANGED pageVars

\* The outcome of a build that ran to its end: non-zero if any item failed.
Outcome == IF errors = << >> THEN 0 ELSE 1

\* The sitemap, the canonical paths of the site index, is written and the
\* builder exits.
WriteSitemap ==
    /\ bpc = "sitemap"
    /\ docs' = [docs EXCEPT !.written = @ \cup {"sitemap"},
                            !.sitemap = [i \in 1..Len(siteIndex) |->
                                            siteIndex[i].path]]
    /\ bpc' = "done"
    /\ exitCode' = Outcome
    /\ UNCHANGED <<contentDir, builtFrom, listing, todo, post, outDir, siteIndex,
                   errors, converted, lastBuild>>
    /\ UNCHANGED pageVars

\* The builder is about to write a file.
Writing ==
    \/ bpc \in {"md", "discovery", "feed", "sitemap"}
    \/ bpc = "post"
          /\ MissingField(parse_frontmatter(contentDir[Head(todo)]).meta) = ""

\* A write to the output directory fails: the builder aborts; what it has
\* written stays.
WriteFails ==
    /\ Writing
    /\ bpc' = "aborted"
    /\ exitCode' = 1
    /\ converted' =
          IF bpc = "post"
            THEN (Head(todo) :>
                    parse_frontmatter(contentDir[Head(todo)]).body) @@ converted
            ELSE converted
    /\ UNCHANGED <<contentDir, builtFrom, listing, todo, post, outDir, siteIndex,
                   docs, errors, lastBuild>>
    /\ UNCHANGED pageVars

\* After a build a content file is deleted.
DeleteItem(s) ==
    /\ bpc = "done"
    /\ s \in DOMAIN contentDir
    /\ contentDir' = [t \in DOMAIN contentDir \ {s} |-> contentDir[t]]
    /\ UNCHANGED <<builtFrom, listing, todo, bpc, post, outDir, siteIndex, docs,
                   errors, exitCode, converted, lastBuild>>
    /\ UNCHANGED pageVars

\* No build has run: nothing listed, nothing written.
BuilderIdle ==
    /\ builtFrom = << >>
    /\ listing = << >>
    /\ todo = << >>
    /\ bpc = "idle"
    /\ post = NoPost
    /\ outDir = << >>
    /\ siteIndex = << >>
    /\ docs = NoDocs
    /\ errors = << >>
    /\ exitCode = NotExited
    /\ converted = << >>
    /\ lastBuild = NoBuild

-----------------------------------------------------------------------------
(* The page *)

\* The page is loaded at time Epoch: the modules are evaluated and Home is
\* rendered with useState('playground').
PageLoaded ==
    /\ now = Epoch
    /\ activeTab = "playground"
    /\ mounted = WidgetsOf("playground")
    /\ messages = InitialMessages(Epoch)
    /\ input = ""
    /\ isTyping = FALSE
    /\ chatTimeouts = 0
    /\ chatStale = 0
    /\ lastUpdated = 0
    /\ autoRefresh = FALSE
    /\ dashIntervals = 0
    /\ dashCleanup = FALSE
    /\ services = Services(Epoch)
    /\ selectedFeature = 0
    /\ config = NoConfig
    /\ preview = NoPreview
    /\ submitted = FALSE
    /\ feedback = NoFeedback
    /\ reported = ""
    /\ fbTimeouts = 0
    /\ fbStale = 0
    /\ currentIndex = 0
    /\ isPaused = FALSE
    /\ carIntervals = 0
    /\ carCleanup = FALSE
    /\ carRun = NoRun
    /\ heldIndex = NotHeld

\* The page in the browser; the site it was served from is not being built.
Init ==
    /\ PageLoaded
    /\ contentDir = << >>
    /\ BuilderIdle

Next ==
    \/ Tick
    \/ \E tab \in Tabs : SetActiveTab(tab)
    \/ \E v \in TypedInputs : TypeInput(v)
    \/ \E q \in QuestionInputs : QuickQuestion(q)
    \/ ChatSubmit
    \/ ChatReply
    \/ ChatStaleReply
    \/ DashboardTick
    \/ ToggleAutoRefresh
    \/ \E f \in 1..NumFeatures : SelectFeature(f)
    \/ CloseFeature
    \/ \E m \in 1..Len(models) : SelectModel(m)
    \/ \E v \in TemperatureInputs : SetTemperature(v)
    \/ \E v \in MaxTokensInputs : SetMaxTokens(v)
    \/ \E key \in {"streaming", "thinking", "agentRouting"} : toggleSetting(key)
    \/ ResetConfig
    \/ \E e1, e2 \in BatchEvents : ConfigBatch(e1, e2)
    \/ \E v \in NameInputs : SetName(v)
    \/ \E v \in EmailInputs : SetEmail(v)
    \/ \E c \in CategoryInputs : SetCategory(c)
    \/ \E star \in RatingInputs : SetRating(star)
    \/ \E v \in MessageInputs : SetMessage(v)
    \/ FeedbackSubmit
    \/ FeedbackTimeout
    \/ FeedbackStaleTimeout
    \/ CarouselTick
    \/ \E index \in 0..(NumTestimonials - 1) : goToSlide(index)
    \/ goToPrevious
    \/ goToNext
    \/ onMouseEnter
    \/ onMouseLeave

Spec == Init /\ [][Next]_vars

\* The timers of the page are run by the browser's event loop: an interval
\* that stays live keeps firing, and a timeout that is pending fires.
FairSpec ==
    /\ Spec
    /\ WF_vars(Tick)
    /\ WF_vars(DashboardTick)
    /\ WF_vars(CarouselTick)
    /\ WF_vars(ChatReply)
    /\ WF_vars(FeedbackTimeout)

\* The builder, about to be run on a content directory.
BuildInit ==
    /\ PageLoaded
    /\ contentDir \in ContentDirs
    /\ BuilderIdle

BuildNext ==
    \/ StartBuild
    \/ BuildPostHtml
    \/ BuildPostMd
    \/ BuildPostMalformed
    \/ WriteDiscovery
    \/ WriteFeed
    \/ WriteSitemap
    \/ WriteFails
    \/ \E s \in Slugs : DeleteItem(s)

BuildSpec == BuildInit /\ [][BuildNext]_vars

-----------------------------------------------------------------------------
(* Properties of the Testimonials carousel *)

\* C1: from the mount state of the carousel, after k timer firings with no
\* hover and no manual navigation in between, currentIndex is k mod 4
\* (3 after 3 firings, 0 again after 4).
C1_AutoAdvance ==
    ("Testimonials" \in mounted /\ carRun # NoRun) =>
        /\ currentIndex = carRun % 4
        /\ (carRun = 3 => currentIndex = 3)
        /\ (carRun = 4 => currentIndex = 0)

\* four untouched firings have wrapped the carousel around to the first slide
C1_Witness ==
    "Testimonials" \in mounted /\ carRun = 4 /\ currentIndex = 0

C24_IndexBounds ==
    /\ [](currentIndex \in 0..(NumTestimonials - 1))
    /\ [][(onMouseEnter \/ onMouseLeave) =>
              currentIndex' = currentIndex]_vars

\* the last slide shows while the mouse is over the carousel and no timer
\* runs
C24_Witness ==
    /\ "Testimonials" \in mounted
    /\ isPaused
    /\ currentIndex = NumTestimonials - 1
    /\ heldIndex = NumTestimonials - 1
    /\ carIntervals = 0

\* the index a function of the carousel gives after four applications
Four(f, i) == f[f[f[f[i]]]]

\* the updaters of goToNext and goToPrevious as functions of the index
NextOf == [i \in 0..(NumTestimonials - 1) |-> NextIndex(i)]
PrevOf == [i \in 0..(NumTestimonials - 1) |-> PrevIndex(i)]

\* C25: on the indices 0..3 next and previous undo each other, in either
\* order; previous of 0 is 3 and next of 3 is 0; four times next, and four
\* times previous, lead back to the start.  A click on next or previous can
\* be made whether or not the carousel is paused, moves currentIndex by
\* that one place, around the ends, and leaves isPaused as it was.
C25_NavigationInverse ==
    /\ [](/\ \A i \in 0..(NumTestimonials - 1) :
                /\ PrevIndex(NextIndex(i)) = i
                /\ NextIndex(PrevIndex(i)) = i
                /\ Four(NextOf, i) = i
                /\ Four(PrevOf, i) = i
           /\ PrevIndex(0) = 3
           /\ NextIndex(3) = 0
           /\ PrevIndex(NextIndex(currentIndex)) = currentIndex
           /\ NextIndex(PrevIndex(currentIndex)) = currentIndex)
    /\ []("Testimonials" \in mounted =>
              ENABLED goToNext /\ ENABLED goToPrevious)
    /\ [][goToNext =>
              /\ currentIndex' = IF currentIndex = 3 THEN 0
                                                     ELSE currentIndex + 1
              /\ isPaused' = isPaused]_vars
    /\ [][goToPrevious =>
              /\ currentIndex' = IF currentIndex = 0 THEN 3
                                                     ELSE currentIndex - 1
              /\ isPaused' = isPaused]_vars

\* the last slide shows in a carousel that is not paused, and not by an
\* unbroken run of timer firings (previous clicked on the first slide leads
\* here)
C25_Witness ==
    /\ "Testimonials" \in mounted
    /\ ~isPaused
    /\ currentIndex = NumTestimonials - 1
    /\ carRun = NoRun
    /\ carIntervals = 1

-----------------------------------------------------------------------------
(* Properties of the FeedbackForm *)

\* one of the required fields of the form is empty
RequiredEmpty ==
    feedback.name = "" \/ feedback.email = << >> \/ feedback.message = ""

\* C3: a submit attempt made while name, email or message is empty is
\* rejected: submitted stays false, the form stays displayed with a control
\* reported, no reset timer is scheduled, the feedback record is unchanged,
\* and nothing outside the FeedbackForm changes.
C3_RejectsEmptyRequired ==
    [][(FeedbackSubmit /\ RequiredEmpty) =>
            /\ ~submitted /\ ~submitted'
            /\ reported' \in {"name", "email", "message"}
            /\ fbTimeouts' = fbTimeouts /\ fbStale' = fbStale
            /\ feedback' = feedback
            /\ UNCHANGED <<buildVars, shellVars, now, chatVars, dashVars, services,
                           featVars, cfgVars, carVars>>]_vars

\* a submission with only the message missing was rejected
C3_Witness ==
    /\ "FeedbackForm" \in mounted
    /\ reported = "message"
    /\ feedback.name # "" /\ feedback.email # << >> /\ feedback.message = ""
    /\ ~submitted /\ fbTimeouts = 0

\* C4 as stated: with the form displayed and name, email and message all
\* non-empty, a submit attempt is accepted.
C4_AcceptsNonEmpty ==
    [][(FeedbackSubmit /\ ~submitted /\ ~RequiredEmpty) => submitted']_vars

\* C4, amended: with the form displayed, name and message non-empty and
\* email a well-formed address (local part, "@", domain), a submit attempt
\* is accepted and the widget moves to the success state with its reset
\* timer pending, whatever the rating and the category.
C4_AcceptsValid ==
    [][(/\ FeedbackSubmit
        /\ ~submitted
        /\ feedback.name # ""
        /\ feedback.message # ""
        /\ \E i \in 2..(Len(feedback.email) - 1) :
              /\ feedback.email[i] = "@"
              /\ \A j \in 1..Len(feedback.email) :
                    feedback.email[j] = "@" => j = i)
       => /\ submitted'
          /\ fbTimeouts' = fbTimeouts + 1
          /\ feedback' = feedback]_vars

\* a submission with a rating and a category other than the defaults was accepted
C4_Witness ==
    /\ "FeedbackForm" \in mounted
    /\ submitted
    /\ fbTimeouts = 1
    /\ feedback.rating = 1
    /\ feedback.category = "other"
    /\ feedback.email = <<"a", "@", "b">>

\* the success view is shown in this state and the next, or the form comes
\* back with the next
SuccessViewStep ==
    /\ "FeedbackForm" \in mounted
    /\ "FeedbackForm" \in mounted'
    /\ submitted

\* C28: while the form stays mounted, the success view an accepted
\* submission brings up goes away again by the timer alone; while it shows,
\* no submission and no change of a field can be made, so exactly one reset
\* timer is pending; it leaves the record as submitted, so the form that
\* comes back holds the submitted name, email, rating, category and message
\* and not the defaults.
C28_SuccessTransient ==
    /\ []("FeedbackForm" \in mounted =>
              /\ fbTimeouts \in {0, 1}
              /\ submitted <=> fbTimeouts = 1
              /\ submitted =>
                    /\ ~ENABLED FeedbackSubmit
                    /\ ~ENABLED (\E v \in NameInputs : SetName(v))
                    /\ ENABLED FeedbackTimeout
                    /\ FirstInvalid(feedback) = "")
    /\ [][SuccessViewStep => feedback' = feedback]_vars
    /\ [][(SuccessViewStep /\ ~submitted') =>
              /\ fbTimeouts' = 0
              /\ feedback' # DefaultFeedback
              /\ \A field \in {"name", "email", "rating", "category", "message"} :
                    feedback'[field] = feedback[field]]_vars
    /\ ("FeedbackForm" \in mounted /\ submitted)
          ~> ("FeedbackForm" \notin mounted \/ ~submitted)

\* the success view shows for a record with the lowest rating, and the
\* timer, when it runs, brings the form back with that record
C28_Witness ==
    /\ "FeedbackForm" \in mounted
    /\ submitted
    /\ fbTimeouts = 1
    /\ feedback.rating = 1
    /\ feedback.message = "Nice bot"
    /\ ENABLED (FeedbackTimeout /\ ~submitted' /\ feedback'.rating = 1)

-----------------------------------------------------------------------------
(* Properties of the ConfigPreview *)

\* C5: in every state of a mounted ConfigPreview the snapshot in the preview
\* panel shows the current model, temperature, max tokens and toggles.
C5_PreviewFresh ==
    "ConfigPreview" \in mounted =>
        /\ preview.model = config.model
        /\ preview.parameters.temperature = config.temperature
        /\ preview.parameters.max_tokens = config.maxTokens
        /\ preview.capabilities.streaming = config.streaming
        /\ preview.capabilities.thinking = config.thinking
        /\ preview.capabilities.agent_routing = config.agentRouting

\* every setting was moved away from its default and the panel shows it
C5_Witness ==
    /\ "ConfigPreview" \in mounted
    /\ config.model = "zai/glm-4.7-flash"
    /\ config.temperature = 12
    /\ config.maxTokens = 1024
    /\ ~config.streaming /\ config.thinking /\ ~config.agentRouting
    /\ preview.model = "zai/glm-4.7-flash"
    /\ preview.parameters = [temperature |-> 12, max_tokens |-> 1024]

\* a step that leaves every setting but f as it was
OnlyChanges(f) == \A g \in Settings \ {f} : config'[g] = config[g]

\* The part of C26 about one change at a time: a change of the model, of
\* the temperature, of max tokens or of a switch, handled alone, sets its own
\* field and leaves the other five as they were.
C26_SingleField ==
    /\ [][\A m \in 1..Len(models) : SelectModel(m) =>
              config'.model = models[m] /\ OnlyChanges("model")]_vars
    /\ [][\A v \in TemperatureInputs : SetTemperature(v) =>
              config'.temperature = v /\ OnlyChanges("temperature")]_vars
    /\ [][\A v \in MaxTokensInputs : SetMaxTokens(v) =>
              config'.maxTokens = v /\ OnlyChanges("maxTokens")]_vars
    /\ [][\A key \in Toggles : toggleSetting(key) =>
              config'[key] = ~config[key] /\ OnlyChanges(key)]_vars

\* C26 as stated: one change at a time touches only its own field, and when
\* two changes of different settings are handled before the component
\* re-renders, the configuration after them has both changes made and the
\* other four fields as they were.
C26_SingleFieldUpdates ==
    /\ C26_SingleField
    /\ [][\A e1, e2 \in BatchEvents : ConfigBatch(e1, e2) =>
              config' = Changed(Changed(config, e1), e2)]_vars

\* What two changes in one task do: when the second is a switch, both are
\* made; when the second comes from the select or a slider, its object,
\* built from the configuration rendered before the first change, replaces
\* what the first change queued, and the first change is lost.
C26_LastObjectWins ==
    [][\A e1, e2 \in BatchEvents : ConfigBatch(e1, e2) =>
          config' = IF e2[1] \in Toggles
                      THEN Changed(Changed(config, e1), e2)
                      ELSE Changed(config, e2)]_vars

\* from the defaults a change of the model and a change of the temperature
\* in one task can end with the model unchanged
C26_LostUpdate ==
    /\ "ConfigPreview" \in mounted
    /\ config = DefaultConfig
    /\ ENABLED (/\ ConfigBatch(<<"model", 2>>, <<"temperature", 12>>)
                /\ config'.model = DefaultConfig.model
                /\ config'.temperature = 12)

\* the configuration a ConfigPreview is mounted with
MountConfig ==
    [model |-> "zai/glm-4.7", temperature |-> 7, maxTokens |-> 4096,
     streaming |-> TRUE, thinking |-> FALSE, agentRouting |-> TRUE]

\* C27: the reset button can be clicked in every state of the mounted panel
\* and always yields the configuration of the mount; clicked again it
\* changes nothing.  A switch toggled a second time gives back the
\* configuration before the first toggle.  The model is always one of the
\* three listed and maxTokens a multiple of 512 from 512 to 8192.
C27_ResetAndToggles ==
    /\ []("ConfigPreview" \in mounted =>
              /\ ENABLED ResetConfig
              /\ \A key \in Toggles : ENABLED toggleSetting(key)
              /\ ~ENABLED (ResetConfig /\ config' # MountConfig)
              /\ config = MountConfig =>
                    ~ENABLED (ResetConfig /\ config' # config)
              /\ config.model \in {models[m] : m \in 1..Len(models)}
              /\ config.maxTokens \in 512..8192
              /\ config.maxTokens % 512 = 0)
    /\ [][\E tab \in Tabs : Entering("ConfigPreview", tab) /\ SwitchTo(tab)
              => config' = MountConfig]_vars
    /\ [][ResetConfig => config' = MountConfig]_vars
    /\ [][\A key \in Toggles : toggleSetting(key) =>
              /\ config'[key] = ~config[key]
              /\ [config' EXCEPT ![key] = ~config'[key]] = config]_vars

\* the panel holds another model, the longest answer and thinking switched
\* on, and a click on reset leads back to the configuration of the mount
C27_Witness ==
    /\ "ConfigPreview" \in mounted
    /\ config.model = "zai/glm-4.7-reasoning"
    /\ config.maxTokens = 8192
    /\ config.temperature = 20
    /\ config.thinking
    /\ ENABLED (ResetConfig /\ config' = MountConfig)

-----------------------------------------------------------------------------
(* Properties of the shell *)

\* C6: the initial tab is 'playground'; a click on tab t is possible in
\* every state and sets activeTab to t in that one step (a click on the
\* active tab leaves it active); activeTab is always one of the five tabs;
\* so every tab is reached from every tab and no state is terminal.
C6_TabMachine ==
    /\ activeTab = "playground"
    /\ [](activeTab \in {"playground", "status", "features", "config",
                        "feedback"})
    /\ [](\A t \in Tabs : ENABLED SetActiveTab(t))
    /\ [][\A t \in Tabs : SetActiveTab(t) => activeTab' = t]_vars

\* a tab other than the initial one is active and shows its widget
C6_Witness == activeTab = "config" /\ "ConfigPreview" \in mounted

\* C7 as stated: for every value of activeTab exactly one widget is mounted.
C7_ExactlyOneWidget == Cardinality(mounted) = 1

\* C7, amended: each of playground, status, features and config mounts
\* exactly one widget, its own; feedback mounts exactly two, FeedbackForm and
\* Testimonials; no widget of another tab is ever mounted.
C7_OneSubtree ==
    /\ activeTab = "playground" => mounted = {"ChatDemo"}
    /\ activeTab = "status" => mounted = {"StatusDashboard"}
    /\ activeTab = "features" => mounted = {"FeatureComparison"}
    /\ activeTab = "config" => mounted = {"ConfigPreview"}
    /\ activeTab = "feedback" => mounted = {"FeedbackForm", "Testimonials"}
    /\ activeTab # "feedback" => Cardinality(mounted) = 1
    /\ activeTab = "feedback" => Cardinality(mounted) = 2

\* the feedback tab is open, with two widgets mounted
C7_Witness == activeTab = "feedback" /\ Cardinality(mounted) = 2

\* The fixed default state of widget w.
FreshState(w) ==
    CASE w = "ChatDemo" ->
            /\ Len(messages) = 1
            /\ messages[1].id = 1 /\ messages[1].type = "bot"
            /\ messages[1].content = Greeting
            /\ input = "" /\ ~isTyping /\ chatTimeouts = 0
      [] w = "StatusDashboard" -> autoRefresh
      [] w = "FeatureComparison" -> selectedFeature = 0
      [] w = "ConfigPreview" ->
            config = [model |-> "zai/glm-4.7", temperature |-> 7,
                      maxTokens |-> 4096, streaming |-> TRUE,
                      thinking |-> FALSE, agentRouting |-> TRUE]
      [] w = "FeedbackForm" ->
            /\ feedback = [name |-> "", email |-> << >>, rating |-> 5,
                           category |-> "general", message |-> ""]
            /\ ~submitted /\ fbTimeouts = 0
      [] w = "Testimonials" -> currentIndex = 0 /\ ~isPaused

\* C8: a widget that a tab switch mounts is in its fixed default state,
\* whatever state it was in when an earlier switch unmounted it; and every
\* switch to another tab unmounts the widgets of the tab left.
C8_FreshOnRemount ==
    [][/\ \A w \in Widgets :
            (w \notin mounted /\ w \in mounted') => FreshState(w)'
       /\ activeTab' # activeTab => mounted' \cap mounted = {}]_vars

\* the chat is back in its default state although an earlier instance of it
\* sent a message whose reply is still pending
C8_Witness ==
    /\ "ChatDemo" \in mounted
    /\ chatStale > 0
    /\ Len(messages) = 1 /\ input = "" /\ ~isTyping

-----------------------------------------------------------------------------
(* Properties of the periodic timers *)

C10_AutoRefresh ==
    /\ [][("StatusDashboard" \notin mounted /\ "StatusDashboard" \in mounted')
              => autoRefresh']_vars
    /\ [][("StatusDashboard" \in mounted /\ "StatusDashboard" \in mounted'
             /\ ~autoRefresh) => lastUpdated' = lastUpdated]_vars
    /\ [][("StatusDashboard" \in mounted /\ "StatusDashboard" \in mounted')
              => lastUpdated' >= lastUpdated]_vars
    /\ [][DashboardTick =>
              UNCHANGED <<autoRefresh, dashIntervals, dashCleanup, services,
                          shellVars, now, chatVars, featVars, cfgVars,
                          fbVars, carVars>>]_vars
    /\ [][ToggleAutoRefresh =>
              (lastUpdated' = lastUpdated /\ autoRefresh' = ~autoRefresh)]_vars
    /\ ("StatusDashboard" \in mounted /\ autoRefresh /\ lastUpdated < now)
          ~> (\/ "StatusDashboard" \notin mounted
              \/ ~autoRefresh
              \/ lastUpdated = now)

\* the timer of a mounted dashboard has fired after the clock advanced
C10_Witness ==
    /\ "StatusDashboard" \in mounted
    /\ autoRefresh
    /\ lastUpdated = now
    /\ lastUpdated > Epoch
    /\ dashIntervals = 1

-----------------------------------------------------------------------------
(* Properties of the ChatDemo *)

\* The messages of the log that the user sent, and the replies to them (the
\* greeting, first in the log, is no reply).
UserMessages == {i \in 1..Len(messages) : messages[i].type = "user"}
BotReplies == {i \in 2..Len(messages) : messages[i].type = "bot"}

\* the texts of demoResponses
DemoTexts == {demoResponses[r] : r \in 1..Len(demoResponses)}

\* C11: a send with non-blank input that the form accepts appends the user's
\* message, clears the input, sets isTyping and schedules one reply; while
\* the chat stays mounted the reply is eventually appended, a bot message with
\* one of the five demo responses, and isTyping is false again; the replies
\* in the log and the one still pending always add up to the messages sent.
C11_ChatReply ==
    /\ [][(ChatSubmit /\ ~SendDisabled) =>
              /\ Trim(input) # ""
              /\ messages' = Append(messages,
                     [id |-> now, type |-> "user", content |-> input,
                      timestamp |-> now])
              /\ input' = ""
              /\ isTyping'
              /\ chatTimeouts' = chatTimeouts + 1]_vars
    /\ [][ChatReply =>
              /\ Len(messages') = Len(messages) + 1
              /\ SubSeq(messages', 1, Len(messages)) = messages
              /\ messages'[Len(messages')].type = "bot"
              /\ messages'[Len(messages')].content \in DemoTexts
              /\ ~isTyping'
              /\ input' = input]_vars
    /\ []("ChatDemo" \in mounted =>
              /\ chatTimeouts \in {0, 1}
              /\ Cardinality(BotReplies) + chatTimeouts
                    = Cardinality(UserMessages))
    /\ [][("ChatDemo" \in mounted /\ "ChatDemo" \in mounted'
              /\ isTyping /\ ~isTyping') =>
              /\ Len(messages') = Len(messages) + 1
              /\ SubSeq(messages', 1, Len(messages)) = messages
              /\ messages'[Len(messages')].type = "bot"
              /\ messages'[Len(messages')].content \in DemoTexts]_vars
    /\ ("ChatDemo" \in mounted /\ isTyping)
          ~> ("ChatDemo" \notin mounted \/ ~isTyping)

\* a quick question was sent and has been answered
C11_Witness ==
    /\ "ChatDemo" \in mounted
    /\ Len(messages) = 3
    /\ messages[2].type = "user" /\ messages[2].content = "Help me with a task"
    /\ messages[3].type = "bot" /\ messages[3].content = demoResponses[5]
    /\ ~isTyping /\ chatTimeouts = 0

\* C12 as stated: a reply callback pending when the chat is unmounted is
\* cleared at the unmount, so no callback scheduled by an unmounted chat is
\* left to run.
C12_UnmountCleanup == chatStale = 0 /\ ~ENABLED ChatStaleReply

\* The part of C12 the code does keep: the callback of an unmounted chat,
\* when it runs, changes nothing of the page but its own disappearance, so a
\* chat mounted afterwards gets no message and no isTyping change from it.
C12_StaleReplyInert ==
    [][ChatStaleReply =>
          UNCHANGED <<messages, input, isTyping, chatTimeouts, shellVars, now,
                      dashVars, services, featVars, cfgVars, fbVars,
                      carVars>>]_vars

\* a chat is mounted again while the callback of the earlier one is pending
C12_StalePending ==
    "ChatDemo" \in mounted /\ chatStale = 1 /\ Len(messages) = 1 /\ ~isTyping

\* C20: in a mounted ChatDemo isTyping is true exactly when one reply is
\* pending, and never more than one is; while isTyping is true the Send
\* button is disabled and no submit of the form, whatever the input holds,
\* is accepted.
C20_TypingFlag ==
    "ChatDemo" \in mounted =>
        /\ chatTimeouts \in {0, 1}
        /\ isTyping <=> chatTimeouts = 1
        /\ isTyping =>
              /\ SendDisabled
              /\ ~ENABLED (ChatSubmit /\ messages' # messages)
              /\ now > messages[Len(messages)].id => ENABLED ChatReply
        /\ ~isTyping => ~ENABLED ChatReply

\* a reply is pending and the user has typed the next message already
C20_Witness ==
    /\ "ChatDemo" \in mounted
    /\ isTyping
    /\ chatTimeouts = 1
    /\ input = " hi "
    /\ Len(messages) = 2

\* the message the component starts with
IsGreeting(m) == m.id = 1 /\ m.type = "bot" /\ m.content = Greeting

\* C21: while the chat stays mounted its log only grows at the end: the log
\* before a step is a prefix of the log after it; the log starts with the
\* greeting, and after the greeting user messages and bot replies alternate,
\* the user's first, so no two messages of one author follow each other.
C21_MessageLog ==
    /\ [][("ChatDemo" \in mounted /\ "ChatDemo" \in mounted') =>
              /\ Len(messages') >= Len(messages)
              /\ SubSeq(messages', 1, Len(messages)) = messages]_vars
    /\ []("ChatDemo" \in mounted =>
              /\ Len(messages) >= 1
              /\ IsGreeting(messages[1])
              /\ \A i \in 2..Len(messages) :
                    messages[i].type = IF i % 2 = 0 THEN "user" ELSE "bot"
              /\ \A i \in 2..(Len(messages) - 1) :
                    messages[i].type # messages[i + 1].type)

\* two exchanges have been made: the log holds the greeting, two messages of
\* the user and the reply to each
C21_Witness ==
    /\ "ChatDemo" \in mounted
    /\ Len(messages) = 5
    /\ messages[2].type = "user" /\ messages[3].type = "bot"
    /\ messages[4].type = "user" /\ messages[5].type = "bot"
    /\ ~isTyping

\* C22 as stated: any two distinct messages of the log have different ids,
\* whenever the sends are made and the replies arrive.
C22_UniqueIds ==
    \A i, j \in 1..Len(messages) :
        i # j => messages[i].id # messages[j].id

\* two messages of the log that carry one id
SameId(i, j) == i < j /\ messages[i].id = messages[j].id

\* What the ids do keep: the only two messages that can share an id are a
\* reply and the user's message right after it, sent at the clock reading
\* that follows the reply's (Date.now() + 1 of the reply is Date.now() of the
\* send); the greeting's id and any two ids of one author differ.
C22_OnlyReplyThenSend ==
    \A i, j \in 1..Len(messages) :
        SameId(i, j) =>
            /\ i > 1 /\ j = i + 1
            /\ messages[i].type = "bot" /\ messages[j].type = "user"
            /\ messages[j].timestamp = messages[i].timestamp + 1

\* the user sent the next message one clock reading after a reply arrived:
\* the reply and the message carry the same id
C22_Collision ==
    /\ "ChatDemo" \in mounted
    /\ Len(messages) >= 4
    /\ SameId(3, 4)
    /\ messages[3].type = "bot" /\ messages[4].type = "user"

\* a step that changes the log, the input, the typing flag or the pending
\* replies of the mounted chat
ChatChanged ==
    <<messages, input, isTyping, chatTimeouts>>' #
        <<messages, input, isTyping, chatTimeouts>>

\* C23: with an input that is empty or only whitespace no run of handleSend
\* and no submit of the form changes messages, input or isTyping or
\* schedules a reply; a click on a quick-question button can always be made
\* and sets the input to that question and nothing else: it appends no
\* message and schedules no reply.
C23_BlankSend ==
    "ChatDemo" \in mounted =>
        /\ Trim(input) = "" =>
              /\ ENABLED ChatSubmit
              /\ ~ENABLED (handleSend /\ ChatChanged)
              /\ ~ENABLED (ChatSubmit /\ ChatChanged)
        /\ \A q \in 1..Len(quickQuestions) :
              /\ ENABLED QuickQuestion(q)
              /\ ~ENABLED (QuickQuestion(q) /\
                             (\/ input' # quickQuestions[q]
                              \/ messages' # messages
                              \/ isTyping' # isTyping
                              \/ chatTimeouts' # chatTimeouts))

\* the input holds only whitespace while no reply is pending: the state a
\* submit of the form is made in and, changing nothing, leaves behind
C23_Witness ==
    /\ "ChatDemo" \in mounted
    /\ input = " "
    /\ ~isTyping
    /\ Len(messages) = 3
    /\ chatTimeouts = 0

-----------------------------------------------------------------------------
(* Properties of the widgets taken together *)

\* The events and timers of each widget.
ChatActions ==
    \/ \E v \in TypedInputs : TypeInput(v)
    \/ \E q \in QuestionInputs : QuickQuestion(q)
    \/ ChatSubmit
    \/ ChatReply
    \/ ChatStaleReply
DashboardActions == DashboardTick \/ ToggleAutoRefresh
FeatureActions == (\E f \in 1..NumFeatures : SelectFeature(f)) \/ CloseFeature
ConfigActions ==
    \/ \E m \in 1..Len(models) : SelectModel(m)
    \/ \E v \in TemperatureInputs : SetTemperature(v)
    \/ \E v \in MaxTokensInputs : SetMaxTokens(v)
    \/ \E key \in {"streaming", "thinking", "agentRouting"} : toggleSetting(key)
    \/ ResetConfig
FeedbackActions ==
    \/ \E v \in NameInputs : SetName(v)
    \/ \E v \in EmailInputs : SetEmail(v)
    \/ \E c \in CategoryInputs : SetCategory(c)
    \/ \E star \in RatingInputs : SetRating(star)
    \/ \E v \in MessageInputs : SetMessage(v)
    \/ FeedbackSubmit
    \/ FeedbackTimeout
    \/ FeedbackStaleTimeout
CarouselActions ==
    \/ CarouselTick
    \/ \E index \in 0..(NumTestimonials - 1) : goToSlide(index)
    \/ goToPrevious
    \/ goToNext
    \/ onMouseEnter
    \/ onMouseLeave

\* the number of widgets whose state a step changes
WidgetsChanged ==
    Cardinality({i \in 1..6 :
        <<chatVars' # chatVars, dashVars' # dashVars, featVars' # featVars,
          cfgVars' # cfgVars, fbVars' # fbVars, carVars' # carVars>>[i]})

\* C13: an event or timer of one widget leaves the state of every other
\* widget, the module-level services and the shell (activeTab and the set of
\* mounted widgets) unchanged; in the feedback tab the FeedbackForm's events
\* leave currentIndex and isPaused alone and the carousel's leave the feedback
\* record and submitted alone; a step that keeps activeTab changes the state
\* of at most one widget.
C13_WidgetIsolation ==
    /\ [][ChatActions =>
              UNCHANGED <<buildVars, shellVars, dashVars, services, featVars, cfgVars,
                          fbVars, carVars>>]_vars
    /\ [][DashboardActions =>
              UNCHANGED <<buildVars, shellVars, chatVars, services, featVars, cfgVars,
                          fbVars, carVars>>]_vars
    /\ [][FeatureActions =>
              UNCHANGED <<buildVars, shellVars, chatVars, dashVars, services, cfgVars,
                          fbVars, carVars>>]_vars
    /\ [][ConfigActions =>
              UNCHANGED <<buildVars, shellVars, chatVars, dashVars, services, featVars,
                          fbVars, carVars>>]_vars
    /\ [][FeedbackActions =>
              /\ currentIndex' = currentIndex /\ isPaused' = isPaused
              /\ UNCHANGED <<buildVars, shellVars, chatVars, dashVars, services,
                             featVars, cfgVars, carVars>>]_vars
    /\ [][CarouselActions =>
              /\ feedback' = feedback /\ submitted' = submitted
              /\ UNCHANGED <<buildVars, shellVars, chatVars, dashVars, services,
                             featVars, cfgVars, fbVars>>]_vars
    /\ [][activeTab' = activeTab => WidgetsChanged <= 1]_vars

\* in the feedback tab the form was submitted while the carousel, untouched
\* by it, shows its third slide and is hovered
C13_Witness ==
    /\ mounted = {"FeedbackForm", "Testimonials"}
    /\ submitted /\ fbTimeouts = 1
    /\ currentIndex = 2 /\ isPaused

-----------------------------------------------------------------------------
(* Properties of the site builder *)

\* the slugs of a sequence of references, in its order
SlugsIn(refs) == [i \in 1..Len(refs) |-> refs[i].slug]

\* C14: the discovery index a build writes is sorted by date descending,
\* items of one date by slug ascending, and no slug is listed twice, so of
\* two distinct items exactly one precedes the other; the feed is the same
\* sequence; an item dated 2026-02-16 with slug b (2) is listed before one
\* dated 2026-02-14 with slug a (1); whatever the order of the listing.
C14_IndexOrdered ==
    "discovery" \in docs.written =>
        LET idx == docs.discovery
        IN  /\ \A i, j \in 1..Len(idx) :
                  i < j =>
                    \/ ParseDate(idx[i].date) > ParseDate(idx[j].date)
                    \/ /\ idx[i].date = idx[j].date
                       /\ idx[i].slug < idx[j].slug
            /\ \A i, j \in 1..Len(idx) :
                  (/\ idx[i].slug = 2 /\ idx[i].date = "2026-02-16"
                   /\ idx[j].slug = 1 /\ idx[j].date = "2026-02-14") => i < j
            /\ "feed" \in docs.written => docs.feed = idx

\* a and b were listed and built in the order a, b and the index of the
\* finished build has b, the later one, first
C14_Witness ==
    /\ bpc = "done"
    /\ listing = <<1, 2>>
    /\ SlugsIn(docs.discovery) = <<2, 1>>
    /\ docs.discovery[1].date = "2026-02-16"
    /\ docs.discovery[2].date = "2026-02-14"
    /\ SlugsIn(docs.feed) = <<2, 1>>

\* the files of the listing that are malformed, and those that are valid
Malformed ==
    {s \in DOMAIN builtFrom :
        MissingField(parse_frontmatter(builtFrom[s]).meta) # ""}
Valid == DOMAIN builtFrom \ Malformed

\* the slugs an aggregate document lists
Listed(doc) == {doc[i].slug : i \in 1..Len(doc)}
ListedPaths(doc) == {doc[i] : i \in 1..Len(doc)}

\* C15: a malformed item (its date missing) never gets an HTML or a markdown
\* output and is in none of the site index, discovery index, feed and
\* sitemap; it is reported with its path; reporting it does not end the
\* build, which aborts on a failed write only; when the build has run to
\* its end every valid item, listed before or after the malformed one, is
\* written in both formats and listed in all three documents, every
\* malformed one is in the summary, and the outcome is non-zero exactly
\* when an item failed.
C15_PartialFailure ==
    /\ [](bpc # "idle" =>
            /\ \A s \in Malformed :
                  /\ html_path(s) \notin DOMAIN outDir
                  /\ md_path(s) \notin DOMAIN outDir
                  /\ s \notin Listed(siteIndex)
                  /\ s \notin Listed(docs.discovery) \cup Listed(docs.feed)
                  /\ html_path(s) \notin ListedPaths(docs.sitemap)
            /\ {errors[i].path : i \in 1..Len(errors)} \subseteq Malformed
            /\ bpc \in {"post", "md", "discovery", "feed", "sitemap"}
                  => exitCode = NotExited
            /\ bpc = "done" =>
                  /\ todo = << >>
                  /\ \A s \in Valid :
                        /\ html_path(s) \in DOMAIN outDir
                        /\ md_path(s) \in DOMAIN outDir
                        /\ s \in Listed(docs.discovery) \cap Listed(docs.feed)
                        /\ html_path(s) \in ListedPaths(docs.sitemap)
                  /\ {errors[i].path : i \in 1..Len(errors)} = Malformed
                  /\ \A i \in 1..Len(errors) : errors[i].field = "date"
                  /\ exitCode = (IF Malformed = {} THEN 0 ELSE 1))
    /\ [][bpc' = "aborted" => WriteFails]_vars
    /\ [][BuildPostMalformed => bpc' \in {"post", "discovery"}]_vars

\* the second of three files has no date: the first and the third are
\* built and listed, the second is reported, and the outcome is non-zero
C15_Witness ==
    /\ bpc = "done"
    /\ listing = <<1, 2, 3>>
    /\ errors = << [path |-> 2, field |-> "date"] >>
    /\ DOMAIN outDir = {html_path(1), md_path(1), html_path(3), md_path(3)}
    /\ Listed(docs.discovery) = {1, 3}
    /\ exitCode = 1

\* C16 as stated: in every state of the output directory, also during a
\* build and after an aborted one, a slug has both its HTML and its markdown
\* output or neither.
C16_AlwaysPaired ==
    \A s \in Slugs :
        html_path(s) \in DOMAIN outDir <=> md_path(s) \in DOMAIN outDir

\* C16, amended: a markdown output is never there without its HTML page; an
\* HTML page is without its markdown only for the item build_post is in,
\* between its two writes, and stays so when the build aborts there; once
\* build_post has returned for an item both are written, so when the items
\* are done every slug has both outputs or neither.
C16_PairedAfterPost ==
    /\ \A s \in Slugs :
          md_path(s) \in DOMAIN outDir => html_path(s) \in DOMAIN outDir
    /\ \A s \in Slugs :
          (html_path(s) \in DOMAIN outDir /\ md_path(s) \notin DOMAIN outDir)
             => (bpc \in {"md", "aborted"} /\ post.slug = s)
    /\ bpc \in {"post", "discovery", "feed", "sitemap", "done"} =>
          \A s \in Slugs :
              html_path(s) \in DOMAIN outDir <=> md_path(s) \in DOMAIN outDir

\* the build aborted on the markdown write of its second item: the first
\* has both outputs, the second its HTML page only
C16_Witness ==
    /\ bpc = "aborted"
    /\ listing = <<2, 1>>
    /\ DOMAIN outDir = {html_path(2), md_path(2), html_path(1)}

\* the items this build rendered and wrote in both formats
Rendered ==
    {s \in Slugs : {html_path(s), md_path(s)} \subseteq DOMAIN outDir}

\* C17: when a build has run to its end, the discovery index, the feed and
\* the sitemap list the same items, each once: exactly the items that were
\* rendered and written, which are the valid items of the content
\* directory; no failed item is in any of them.
C17_AggregateCoverage ==
    bpc = "done" =>
        /\ Listed(docs.discovery) = Rendered
        /\ Listed(docs.feed) = Rendered
        /\ ListedPaths(docs.sitemap) = {html_path(s) : s \in Rendered}
        /\ Len(docs.discovery) = Cardinality(Rendered)
        /\ Len(docs.feed) = Cardinality(Rendered)
        /\ Len(docs.sitemap) = Cardinality(Rendered)
        /\ Rendered = Valid
        /\ \A i \in 1..Len(errors) : errors[i].path \notin Rendered

\* three files of two dates, one of them failed: the three documents list
\* the other two
C17_Witness ==
    /\ bpc = "done"
    /\ listing = <<2, 3, 1>>
    /\ Len(errors) = 1 /\ errors[1].path = 3
    /\ SlugsIn(docs.discovery) = <<1, 2>>
    /\ SlugsIn(docs.feed) = <<1, 2>>
    /\ docs.sitemap = <<html_path(1), html_path(2)>>
    /\ docs.feed[1].date = "2026-02-16" /\ docs.feed[2].date = "2026-02-14"

\* the files of the listing the loop has dealt with
Processed ==
    {listing[i] : i \in 1..(Len(listing) - Len(todo))}

\* C18: a build that has run to its end over the input of the finished
\* build before it has written the same discovery index, feed and sitemap,
\* whatever the two orders of listing; the site index holds only items this
\* build has dealt with, so the documents list no file that is not in the
\* content directory the build was started on, such as one listed by the
\* build before and deleted since.
C18_Deterministic ==
    /\ Listed(siteIndex) \subseteq Processed
    /\ (bpc = "done" /\ lastBuild.built) =>
          /\ lastBuild.content = builtFrom => docs = lastBuild.docs
          /\ Listed(docs.discovery) \subseteq DOMAIN builtFrom
          /\ Listed(docs.feed) \subseteq DOMAIN builtFrom
          /\ ListedPaths(docs.sitemap)
                \subseteq {html_path(s) : s \in DOMAIN builtFrom}

\* a second build over the same three files, listed in descending order,
\* has written the documents of the first again
C18_Witness ==
    /\ bpc = "done"
    /\ lastBuild.built
    /\ lastBuild.content = builtFrom
    /\ listing = <<3, 2, 1>>
    /\ docs = lastBuild.docs
    /\ SlugsIn(docs.discovery) = <<1, 3, 2>>

\* a file the build before listed was deleted, and the build after lists
\* the two that are left
C18_DeletedNotCarried ==
    /\ bpc = "done"
    /\ lastBuild.built
    /\ Listed(lastBuild.docs.discovery) = {1, 2, 3}
    /\ DOMAIN builtFrom = {1, 3}
    /\ Listed(docs.discovery) = {1, 3}

\* C19: for every item whose markdown output is written, the body that was
\* handed to markdown_to_html is the text of the source file after its
\* frontmatter block, rules in it included, and the markdown output is a
\* header of title, date and description between two fences followed by that
\* same body, line for line.
C19_SameBody ==
    \A s \in Slugs :
        md_path(s) \in DOMAIN outDir =>
            /\ s \in DOMAIN converted
            /\ LET md == outDir[md_path(s)]
                   body == converted[s]
                   file == builtFrom[s]
                   head == Len(file) - Len(body)
               IN  /\ Len(body) > 0
                   /\ head >= 2
                   /\ SubSeq(file, head + 1, Len(file)) = body
                   /\ file[1].k = "---" /\ file[head].k = "---"
                   /\ \A i \in 2..(head - 1) : file[i].k # "---"
                   /\ Len(md) = 5 + Len(body)
                   /\ SubSeq(md, 6, Len(md)) = body
                   /\ <<md[1].k, md[2].k, md[3].k, md[4].k, md[5].k>>
                         = <<"---", "title", "date", "description", "---">>
                   /\ \A i \in 2..(head - 1) :
                         \E j \in 2..4 : md[j] = file[i]

\* the markdown of item 2 is written: its header, and the three lines of its
\* body with the rule in the middle
C19_Witness ==
    /\ md_path(2) \in DOMAIN outDir
    /\ converted[2] = BodyOf(2)
    /\ Len(outDir[md_path(2)]) = 8
    /\ outDir[md_path(2)][7].k = "---"
    /\ outDir[md_path(2)][3].v = "2026-02-14"

=============================================================================
